---- MODULE Spec2Model ----
(***************************************************************************)
(* Workflow graph reconstruction of architecture_analyzer.py:              *)
(* ArchitectureAnalyzer._build_workflow_data (lines 401-468), stepped one  *)
(* loop iteration at a time.                                               *)
(*                                                                         *)
(* files_data ranges over the lists the function accepts: records built    *)
(* by analyze_file (yaml_valid true only with every required key present   *)
(* and not null) and records handed to it directly (null or missing keys    *)
(* beside yaml_valid = true).                                              *)
(*                                                                         *)
(* Python values are records [t, s, n]: t is the type tag, s the           *)
(* characters of a str (a sequence of one-character strings), n the value  *)
(* of an int or the length of a list.  The display-only fields title and   *)
(* agent of task_info are copied and never read by the builder; they are   *)
(* left out.                                                               *)
(***************************************************************************)
EXTENDS Integers, Sequences, FiniteSets, TLC

VARIABLES files_data, pc, i, phases, orphaned, valid_tasks, connected_tasks,
          all_task_ids, cur, stats, err,
          run, first, workflow_html, rp, doc, analysis,
          rpc, export_html, export_format, folder, temp_files, disk, stuck,
          handled, cleanups, divisions

\* the process around run_analysis: where run_analysis stands, the two export
\* options, the analyses the folder will give, the _temp_files registry, the
\* report files on disk, those an unlink failed on, the number of runs of
\* the signal handler and of the cleanup, the divisions evaluated so far
proc == <<rpc, export_html, export_format, folder, temp_files, disk, stuck,
          handled, cleanups, divisions>>

\* what lives outside one call of _build_workflow_data: the number of the
\* call and the outcome of the first one, the HTML under construction and the
\* phase being rendered, the document under analysis and its FileAnalysis
outer == <<run, first, workflow_html, rp, doc, analysis, proc>>

vars == <<files_data, pc, i, phases, orphaned, valid_tasks, connected_tasks,
          all_task_ids, cur, stats, err, outer>>

(* ------------------------------ bounds --------------------------------- *)

MaxFiles == 2

\* most records in a list handed to the renderer
MaxShown == 3

(* --------------------------- Python values ----------------------------- *)

None == [t |-> "none", s |-> <<>>, n |-> 0]

Absent == [t |-> "absent", s |-> <<>>, n |-> 0]

StrVal(chars) == [t |-> "str", s |-> chars, n |-> 0]

IntVal(k) == [t |-> "int", s |-> <<>>, n |-> k]

ListVal(len) == [t |-> "list", s |-> <<>>, n |-> len]

sUnknown == <<"U", "n", "k", "n", "o", "w", "n">>

sPHASE == <<"P", "H", "A", "S", "E">>

sP == <<"P">>

sT1 == <<"T", "1">>

sT9 == <<"T", "9">>

sP5 == <<"P", "5">>

sPHASE1 == <<"P", "H", "A", "S", "E", "1">>

\* bool(x): None, "", 0 and [] are falsy
Truthy(x) ==
    CASE x.t = "none" -> FALSE
      [] x.t = "str"  -> Len(x.s) > 0
      [] x.t = "int"  -> x.n # 0
      [] x.t = "list" -> x.n > 0
      [] OTHER        -> FALSE

\* hash(x) succeeds (a list is unhashable)
Hashable(x) == x.t # "list"

\* str.startswith
StartsWith(chars, prefix) ==
    /\ Len(chars) >= Len(prefix)
    /\ SubSeq(chars, 1, Len(prefix)) = prefix

\* dict.get(key, default) on a front matter whose missing keys are Absent
Get(d, key, default) == IF d[key].t = "absent" THEN default ELSE d[key]

(* ------------------------------ inputs --------------------------------- *)

Keys == {"task_id", "phase", "step", "previous_task", "next_task"}

\* yaml_frontmatter = None
NoneFM == [isdict |-> FALSE, task_id |-> Absent, phase |-> Absent, step |-> Absent,
           previous_task |-> Absent, next_task |-> Absent]

\* yaml_frontmatter = {}
EmptyFM == [NoneFM EXCEPT !.isdict = TRUE]

\* bool(yaml_frontmatter): None and the empty dict are falsy
FMTruthy(fm) == fm.isdict /\ \E k \in Keys : fm[k].t # "absent"

\* Front matters whose values are strings or null.
MainFM ==
    [isdict : {TRUE},
     task_id : {StrVal(sT1), StrVal(sP5)},
     phase : {StrVal(<<"1">>), StrVal(<<"2">>)},
     step : {StrVal(<<"1">>)},
     previous_task : {None, StrVal(sT1), StrVal(sP5), StrVal(sPHASE1)},
     next_task : {None, StrVal(sT1), StrVal(sP5)}]

\* Front matters with every key present and not null, some values empty
\* strings or YAML scalars and lists that are no strings.
TypedFM ==
    [isdict : {TRUE},
     task_id : {StrVal(sT1)},
     phase : {StrVal(<<"1">>), StrVal(<<>>), ListVal(1)},
     step : {StrVal(<<"1">>)},
     previous_task : {StrVal(<<>>), StrVal(sT9), IntVal(5), IntVal(0)},
     next_task : {StrVal(<<>>), IntVal(5)}]

\* Front matters with missing keys and null values.
MissingFM ==
    [isdict : {TRUE},
     task_id : {StrVal(sT1), Absent},
     phase : {StrVal(<<"1">>), Absent, None},
     step : {Absent},
     previous_task : {Absent, StrVal(sT9)},
     next_task : {None}]

\* Front matters whose references name other records or nothing known.
ChainFM ==
    [isdict : {TRUE},
     task_id : {StrVal(sT1), StrVal(sP5)},
     phase : {StrVal(<<"1">>)},
     step : {StrVal(<<"1">>)},
     previous_task : {None, StrVal(sT1), StrVal(sT9)},
     next_task : {None, StrVal(sT1), StrVal(sT9)}]

\* valid records, records that parsed and miss required fields, and records
\* that failed to parse
MainPayload ==
    [yaml_valid : {TRUE}, yaml_frontmatter : MainFM]
      \cup [yaml_valid : {FALSE},
            yaml_frontmatter : {NoneFM, [EmptyFM EXCEPT !.task_id = StrVal(sT1)]}]

TypedPayload == [yaml_valid : {TRUE}, yaml_frontmatter : TypedFM]

ChainPayload == [yaml_valid : {TRUE}, yaml_frontmatter : ChainFM]

MissingPayload ==
    [yaml_valid : {TRUE}, yaml_frontmatter : MissingFM \cup {NoneFM, EmptyFM}]

\* the k-th file of the sorted listing carries filename k
Named(f, len) ==
    [k \in 1..len |-> [filename |-> k, yaml_valid |-> f[k].yaml_valid,
                       yaml_frontmatter |-> f[k].yaml_frontmatter]]

\* files_data is a list of at most MaxFiles records over `payload`
FilesOver(payload) ==
    \E len \in 0..MaxFiles : \E f \in [1..len -> payload] : files_data = Named(f, len)

(* -------------------------- _build_workflow_data ----------------------- *)

\* task_info of lines 416-426
TaskInfo(fd) ==
    [filename |-> fd.filename,
     task_id |-> Get(fd.yaml_frontmatter, "task_id", StrVal(sUnknown)),
     phase |-> Get(fd.yaml_frontmatter, "phase", StrVal(sUnknown)),
     step |-> Get(fd.yaml_frontmatter, "step", StrVal(sUnknown)),
     previous_task |-> Get(fd.yaml_frontmatter, "previous_task", None),
     next_task |-> Get(fd.yaml_frontmatter, "next_task", None),
     valid |-> fd.yaml_valid]

\* line 410 skipping only records without a front matter
Skipped_ParseOnly(fd) == ~FMTruthy(fd.yaml_frontmatter)

\* line 410: the record is skipped
Skipped(fd) == ~fd.yaml_valid \/ ~FMTruthy(fd.yaml_frontmatter)

\* line 432 looking at previous_task only
HasConnections_PrevOnly(task) == Truthy(task.previous_task)

\* line 432 with `and` for `or`
HasConnections_Both(task) == Truthy(task.previous_task) /\ Truthy(task.next_task)

\* line 432
HasConnections(task) == Truthy(task.previous_task) \/ Truthy(task.next_task)

\* position of `phase` among the keys of the ordered dict, 0 when missing
PhaseIndex(ph, phase) ==
    IF \E k \in 1..Len(ph) : ph[k].key = phase
    THEN CHOOSE k \in 1..Len(ph) : ph[k].key = phase
    ELSE 0

\* lines 436-439 without the membership test: phases[phase] = [task]
AddToPhase_Overwrite(ph, task) ==
    LET k == PhaseIndex(ph, task.phase) IN
    IF k = 0
    THEN Append(ph, [key |-> task.phase, tasks |-> <<task>>])
    ELSE [ph EXCEPT ![k].tasks = <<task>>]

\* lines 436-439 keeping one record per task_id in a group
AddToPhase_UniqueId(ph, task) ==
    LET k == PhaseIndex(ph, task.phase) IN
    IF k = 0
    THEN Append(ph, [key |-> task.phase, tasks |-> <<task>>])
    ELSE IF \E j \in 1..Len(ph[k].tasks) : ph[k].tasks[j].task_id = task.task_id
    THEN ph
    ELSE [ph EXCEPT ![k].tasks = Append(@, task)]

\* lines 436-439: phases[phase] created on first sight, task appended
AddToPhase(ph, task) ==
    LET k == PhaseIndex(ph, task.phase) IN
    IF k = 0
    THEN Append(ph, [key |-> task.phase, tasks |-> <<task>>])
    ELSE [ph EXCEPT ![k].tasks = Append(@, task)]

\* line 442 collecting only the task_ids of records whose own references
\* resolve: resolution carried one hop further
TaskIdsOf_Resolved(ph) ==
    LET all == UNION {{ph[k].tasks[j] : j \in 1..Len(ph[k].tasks)} : k \in 1..Len(ph)}
        ids == {t.task_id : t \in all}
        ok(ref, prefix) ==
            \/ ~Truthy(ref)
            \/ ref \in ids
            \/ ref.t = "str" /\ StartsWith(ref.s, prefix)
    IN {t.task_id : t \in {u \in all : ok(u.previous_task, sPHASE) /\ ok(u.next_task, sP)}}

\* line 442 reading the first phase group only
TaskIdsOf_FirstPhase(ph) ==
    IF ph = <<>> THEN {} ELSE {ph[1].tasks[j].task_id : j \in 1..Len(ph[1].tasks)}

\* line 442: the task_ids of all grouped tasks
TaskIdsOf(ph) ==
    UNION {{ph[k].tasks[j].task_id : j \in 1..Len(ph[k].tasks)} : k \in 1..Len(ph)}

\* `not x or x in ids or x.startswith(prefix)`, left to right
RefExists(x, ids, prefix) ==
    IF ~Truthy(x) THEN "true"
    ELSE IF ~Hashable(x) THEN "TypeError"
    ELSE IF x \in ids THEN "true"
    ELSE IF x.t # "str" THEN "AttributeError"
    ELSE IF StartsWith(x.s, prefix) THEN "true"
    ELSE "false"

\* line 447 looking the reference up among the other records only
PrevExists_OthersOnly(task, ids) ==
    RefExists(task.previous_task,
              UNION {{phases[k].tasks[j].task_id :
                        j \in {m \in 1..Len(phases[k].tasks) : phases[k].tasks[m] # task}} :
                     k \in 1..Len(phases)},
              sPHASE)

\* line 447
PrevExists(task, ids) == RefExists(task.previous_task, ids, sPHASE)

\* line 448 with the predecessor's prefix "PHASE"
NextExists_PhasePrefix(task, ids) == RefExists(task.next_task, ids, sPHASE)

\* line 448
NextExists(task, ids) == RefExists(task.next_task, ids, sP)

\* the conjunction of line 450 turned into a disjunction
IsOrphan_AnyResolves(prev_exists, next_exists) ==
    ~(prev_exists = "true" \/ next_exists = "true")

\* line 450
IsOrphan(prev_exists, next_exists) == ~(prev_exists = "true" /\ next_exists = "true")

\* lines 450-451 as a partition: the orphan is moved out of its phase group
MarkOrphan_Move(ph, orph, task, is_orphan) ==
    IF is_orphan
    THEN [phases |-> [k \in 1..Len(ph) |->
                        [ph[k] EXCEPT !.tasks = SelectSeq(@, LAMBDA t : t # task)]],
          orphaned |-> Append(orph, task)]
    ELSE [phases |-> ph, orphaned |-> orph]

\* lines 450-451 appending once per reference that fails
MarkOrphan_PerReference(ph, orph, task, is_orphan) ==
    LET once == IF PrevExists(task, all_task_ids) = "true" THEN orph ELSE Append(orph, task)
    IN [phases |-> ph,
        orphaned |-> IF NextExists(task, all_task_ids) = "true" THEN once
                     ELSE Append(once, task)]

\* lines 450-451: an orphan is appended to `orphaned`; `phases` is not touched
MarkOrphan(ph, orph, task, is_orphan) ==
    [phases |-> ph, orphaned |-> IF is_orphan THEN Append(orph, task) ELSE orph]

\* line 454 counting the groups instead of their records
SumLens_CountPhases(ph) == Len(ph)

RECURSIVE SumLens(_)
\* line 454
SumLens(ph) == IF ph = <<>> THEN 0 ELSE Len(Head(ph).tasks) + SumLens(Tail(ph))

RECURSIVE GCD(_, _)
GCD(a, b) == IF b = 0 THEN a ELSE GCD(b, a % b)

\* a / b * 100 as a reduced fraction; dividing by zero raises
TrueDivTimes100(a, b) ==
    IF b = 0 THEN [raised |-> TRUE, num |-> 0, den |-> 1]
    ELSE LET g == GCD(a * 100, b) IN
         [raised |-> FALSE, num |-> (a * 100) \div g, den |-> b \div g]

\* line 455 without the `if total_tasks > 0` guard
CompletionRate_Unguarded(valid, total) == TrueDivTimes100(valid, total)

\* line 455 with 100 for the empty case
CompletionRate_Else100(valid, total) ==
    IF total > 0 THEN TrueDivTimes100(valid, total)
    ELSE [raised |-> FALSE, num |-> 100, den |-> 1]

\* line 455
CompletionRate(valid, total) ==
    IF total > 0 THEN TrueDivTimes100(valid, total)
    ELSE [raised |-> FALSE, num |-> 0, den |-> 1]

NoStats == [total_tasks |-> 0, connected_tasks |-> 0, orphaned_tasks |-> 0,
            phases_count |-> 0, valid_tasks |-> 0,
            completion_rate |-> [num |-> 0, den |-> 1]]

\* no first call yet
NoFirst == [files |-> <<>>, pc |-> "none", err |-> "none", phases |-> <<>>,
            orphaned |-> <<>>, stats |-> NoStats]

\* lines 43-46
REQUIRED_YAML_FIELDS ==
    <<"phase", "step", "task", "task_id", "title",
      "previous_task", "next_task", "version", "agent", "orchestrator">>

RequiredSet == {REQUIRED_YAML_FIELDS[k] : k \in 1..Len(REQUIRED_YAML_FIELDS)}

\* what yaml.safe_load hands back, or None when extraction gave up
NoYaml == [kind |-> "none", fields |-> [f \in RequiredSet |-> Absent]]

\* no document read yet
NoDoc == [read_ok |-> FALSE, kind |-> "none", fields |-> NoYaml.fields]

\* no FileAnalysis built yet
NoAnalysis == [built |-> FALSE, raised |-> "none", yaml_frontmatter |-> NoYaml,
               yaml_valid |-> FALSE, yaml_errors |-> <<>>,
               missing_required_fields |-> <<>>]

\* the first call of the builder is entered, nothing rendered or analysed
Entered ==
    /\ pc = "group"
    /\ i = 1
    /\ phases = <<>>
    /\ orphaned = <<>>
    /\ valid_tasks = 0
    /\ connected_tasks = 0
    /\ all_task_ids = {}
    /\ cur = [p |-> 1, t |-> 1]
    /\ stats = NoStats
    /\ err = "none"
    /\ run = 1
    /\ first = NoFirst
    /\ workflow_html = <<>>
    /\ rp = 1
    /\ analysis = NoAnalysis
    /\ rpc = "none"
    /\ export_html = FALSE
    /\ export_format = "none"
    /\ folder = <<>>
    /\ temp_files = <<>>
    /\ disk = {}
    /\ stuck = {}
    /\ handled = 0
    /\ cleanups = 0
    /\ divisions = {}

Init ==
    /\ \/ FilesOver(MainPayload)
       \/ FilesOver(TypedPayload)
       \/ FilesOver(MissingPayload)
       \/ FilesOver(ChainPayload)
    /\ doc = NoDoc
    /\ Entered

\* one iteration of the loop of lines 409-439
ProcessFile ==
    /\ pc = "group"
    /\ i <= Len(files_data)
    /\ LET fd == files_data[i]
           task == TaskInfo(fd)
       IN IF Skipped(fd)
          THEN /\ i' = i + 1
               /\ UNCHANGED <<pc, phases, valid_tasks, connected_tasks, err>>
          ELSE /\ valid_tasks' = IF task.valid THEN valid_tasks + 1 ELSE valid_tasks
               /\ connected_tasks' =
                      IF HasConnections(task) THEN connected_tasks + 1 ELSE connected_tasks
               /\ IF Hashable(task.phase)
                  THEN /\ phases' = AddToPhase(phases, task)
                       /\ i' = i + 1
                       /\ UNCHANGED <<pc, err>>
                  ELSE /\ pc' = "raised"
                       /\ err' = "TypeError"
                       /\ UNCHANGED <<phases, i>>
    /\ UNCHANGED <<files_data, orphaned, all_task_ids, cur, stats, outer>>

\* line 442, reached when the loop over files_data is exhausted
CollectIds ==
    /\ pc = "group"
    /\ i > Len(files_data)
    /\ IF \A x \in TaskIdsOf(phases) : Hashable(x)
       THEN /\ all_task_ids' = TaskIdsOf(phases)
            /\ pc' = "orphans"
            /\ UNCHANGED err
       ELSE /\ pc' = "raised"
            /\ err' = "TypeError"
            /\ UNCHANGED all_task_ids
    /\ UNCHANGED <<files_data, i, phases, orphaned, valid_tasks, connected_tasks,
                   cur, stats, outer>>

\* one iteration of the nested loops of lines 444-451
CheckTask ==
    /\ pc = "orphans"
    /\ cur.p <= Len(phases)
    /\ LET task == phases[cur.p].tasks[cur.t]
           prev_exists == PrevExists(task, all_task_ids)
           next_exists == NextExists(task, all_task_ids)
       IN IF prev_exists \in {"TypeError", "AttributeError"}
          THEN /\ pc' = "raised"
               /\ err' = prev_exists
               /\ UNCHANGED <<phases, orphaned, cur>>
          ELSE IF next_exists \in {"TypeError", "AttributeError"}
          THEN /\ pc' = "raised"
               /\ err' = next_exists
               /\ UNCHANGED <<phases, orphaned, cur>>
          ELSE /\ LET after == MarkOrphan(phases, orphaned, task,
                                            IsOrphan(prev_exists, next_exists))
                  IN /\ orphaned' = after.orphaned
                     /\ phases' = after.phases
               /\ cur' = IF cur.t < Len(phases[cur.p].tasks)
                         THEN [cur EXCEPT !.t = @ + 1]
                         ELSE [p |-> cur.p + 1, t |-> 1]
               /\ UNCHANGED <<pc, err>>
    /\ UNCHANGED <<files_data, i, valid_tasks, connected_tasks, all_task_ids, stats,
                   outer>>

\* lines 453-468
CalcStats ==
    /\ pc = "orphans"
    /\ cur.p > Len(phases)
    /\ LET total_tasks == SumLens(phases)
           completion_rate == CompletionRate(valid_tasks, total_tasks)
       IN IF completion_rate.raised
          THEN /\ pc' = "raised"
               /\ err' = "ZeroDivisionError"
               /\ UNCHANGED stats
          ELSE /\ stats' = [total_tasks |-> total_tasks,
                            connected_tasks |-> connected_tasks,
                            orphaned_tasks |-> Len(orphaned),
                            phases_count |-> Len(phases),
                            valid_tasks |-> valid_tasks,
                            completion_rate |-> [num |-> completion_rate.num,
                                                 den |-> completion_rate.den]]
               /\ pc' = "done"
               /\ UNCHANGED err
    /\ UNCHANGED <<files_data, i, phases, orphaned, valid_tasks, connected_tasks,
                   all_task_ids, cur, outer>>

Next == ProcessFile \/ CollectIds \/ CheckTask \/ CalcStats

Spec == Init /\ [][Next]_vars

(* ------------------- a second call of the builder ---------------------- *)

\* Front matters in two phases whose references cross the phases.
OrderFM ==
    [isdict : {TRUE},
     task_id : {StrVal(sT1), StrVal(sP5)},
     phase : {StrVal(<<"1">>), StrVal(<<"2">>)},
     step : {StrVal(<<"1">>)},
     previous_task : {None, StrVal(sT1)},
     next_task : {None, StrVal(sT9)}]

OrderPayload == [yaml_valid : {TRUE}, yaml_frontmatter : OrderFM]

\* the orders in which a list of n records can be handed over
Orders(n) == {p \in [1..n -> 1..n] : \A a, b \in 1..n : a # b => p[a] # p[b]}

\* lines 403-406 with the accumulators kept from the previous call, as
\* attributes of the analyzer would be
FreshLocals_Kept ==
    [phases |-> phases, orphaned |-> orphaned, valid_tasks |-> valid_tasks,
     connected_tasks |-> connected_tasks]

\* lines 403-406: the accumulators are locals, set anew by every call
FreshLocals ==
    [phases |-> <<>>, orphaned |-> <<>>, valid_tasks |-> 0, connected_tasks |-> 0]

\* _build_workflow_data is called a second time, on the same records in the
\* same or another order; the outcome of the first call is remembered
CallAgain ==
    /\ pc \in {"done", "raised"}
    /\ run = 1
    /\ \E p \in Orders(Len(files_data)) :
         files_data' = [k \in 1..Len(files_data) |-> files_data[p[k]]]
    /\ first' = [files |-> files_data, pc |-> pc, err |-> err, phases |-> phases,
                 orphaned |-> orphaned, stats |-> stats]
    /\ run' = 2
    /\ phases' = FreshLocals.phases
    /\ orphaned' = FreshLocals.orphaned
    /\ valid_tasks' = FreshLocals.valid_tasks
    /\ connected_tasks' = FreshLocals.connected_tasks
    /\ pc' = "group"
    /\ i' = 1
    /\ all_task_ids' = {}
    /\ cur' = [p |-> 1, t |-> 1]
    /\ stats' = NoStats
    /\ err' = "none"
    /\ UNCHANGED <<workflow_html, rp, doc, analysis, proc>>

InitTwice ==
    /\ FilesOver(OrderPayload) \/ FilesOver(TypedPayload)
    /\ doc = NoDoc
    /\ Entered

NextTwice == Next \/ CallAgain

SpecTwice == InitTwice /\ [][NextTwice]_vars

(* ------------------- _generate_workflow_schema_html -------------------- *)

\* Front matters in two phases whose steps are digit strings, integers or a
\* list; no references.
StepFM ==
    [isdict : {TRUE},
     task_id : {StrVal(sT1)},
     phase : {StrVal(<<"1">>), StrVal(<<"2">>)},
     step : {StrVal(<<"2">>), StrVal(<<"1", "0">>), IntVal(2), IntVal(10), ListVal(1)},
     previous_task : {None},
     next_task : {None}]

StepPayload == [yaml_valid : {TRUE}, yaml_frontmatter : StepFM]

FilesShown ==
    \E len \in 0..MaxShown : \E f \in [1..len -> StepPayload] : files_data = Named(f, len)

Digits == <<"0", "1", "2", "3", "4", "5", "6", "7", "8", "9">>

\* code point of a digit character
Ord(c) == 47 + CHOOSE k \in 1..Len(Digits) : Digits[k] = c

\* str < str: by code point, a proper prefix first
RECURSIVE StrLess(_, _)
StrLess(a, b) ==
    IF b = <<>> THEN FALSE
    ELSE IF a = <<>> THEN TRUE
    ELSE IF Head(a) # Head(b) THEN Ord(Head(a)) < Ord(Head(b))
    ELSE StrLess(Tail(a), Tail(b))

\* < between two step keys raises TypeError unless both are str or both int
Comparable(x, y) == x.t = y.t /\ x.t \in {"str", "int"}

\* x < y for two comparable keys
KeyLess(x, y) == IF x.t = "int" THEN x.n < y.n ELSE StrLess(x.s, y.s)

\* one piece of the generated HTML
Piece(tag, key, task) == [tag |-> tag, key |-> key, task |-> task]

\* lines 470-480: the node of one task
TaskNodeHtml(task) == Piece("node", task.task_id, task.filename)

\* position of `step` among the keys of steps, 0 when missing
StepIndex(steps, step) ==
    IF \E k \in 1..Len(steps) : steps[k].key = step
    THEN CHOOSE k \in 1..Len(steps) : steps[k].key = step
    ELSE 0

\* lines 323-328: steps = {} filled task by task in the order of the phase
RECURSIVE GroupBySteps(_)
GroupBySteps(tasks) ==
    IF tasks = <<>> THEN <<>>
    ELSE LET before == GroupBySteps(SubSeq(tasks, 1, Len(tasks) - 1))
             task == tasks[Len(tasks)]
             k == StepIndex(before, task.step)
         IN  IF k = 0
             THEN Append(before, [key |-> task.step, tasks |-> <<task>>])
             ELSE [before EXCEPT ![k].tasks = Append(@, task)]

\* line 326 raises for an unhashable step, line 330 for keys that do not compare
StepsRaise(tasks) ==
    \/ \E k \in 1..Len(tasks) : ~Hashable(tasks[k].step)
    \/ \E a, b \in 1..Len(tasks) : ~Comparable(tasks[a].step, tasks[b].step)

\* line 330 without sorted(): the steps in first-seen order
SortedItems_FirstSeen(steps) == steps

\* line 330: sorted(steps.items()); the keys are distinct, so the lists of two
\* items are never compared
SortedItems(steps) ==
    [k \in 1..Len(steps) |->
       CHOOSE it \in {steps[j] : j \in 1..Len(steps)} :
         Cardinality({j \in 1..Len(steps) : KeyLess(steps[j].key, it.key)}) = k - 1]

\* lines 337-340: the nodes of a flow, an arrow before each but the first
RECURSIVE FlowNodes(_)
FlowNodes(step_tasks) ==
    IF step_tasks = <<>> THEN <<>>
    ELSE LET n == Len(step_tasks)
             node == TaskNodeHtml(step_tasks[n])
         IN  IF n > 1
             THEN FlowNodes(SubSeq(step_tasks, 1, n - 1))
                    \o <<Piece("arrow", None, 0), node>>
             ELSE <<node>>

\* lines 331-349: one step
StepHtml(item) ==
    IF Len(item.tasks) > 1
    THEN <<Piece("flow", item.key, 0)>> \o FlowNodes(item.tasks)
           \o <<Piece("end_step", None, 0)>>
    ELSE <<Piece("single", item.key, 0), TaskNodeHtml(item.tasks[1]),
           Piece("end_step", None, 0)>>

RECURSIVE StepsHtml(_)
StepsHtml(items) ==
    IF items = <<>> THEN <<>> ELSE StepHtml(Head(items)) \o StepsHtml(Tail(items))

\* lines 317-351: one phase
PhaseHtml(group) ==
    <<Piece("phase", group.key, 0)>>
      \o StepsHtml(SortedItems(GroupBySteps(group.tasks)))
      \o <<Piece("end_phase", None, 0)>>

\* lines 353-362: the orphaned tasks, when there are any
OrphansHtml(orph) ==
    IF orph = <<>> THEN <<>>
    ELSE <<Piece("orphans", None, 0)>>
           \o [k \in 1..Len(orph) |-> TaskNodeHtml(orph[k])]
           \o <<Piece("end_orphans", None, 0)>>

\* one turn of the loop of line 317; workflow_html holds what was appended
\* after the fixed opening text
RenderPhase ==
    /\ pc = "done"
    /\ rp <= Len(phases)
    /\ IF StepsRaise(phases[rp].tasks)
       THEN /\ pc' = "raised"
            /\ err' = "TypeError"
            /\ UNCHANGED <<workflow_html, rp>>
       ELSE /\ workflow_html' = workflow_html \o PhaseHtml(phases[rp])
            /\ rp' = rp + 1
            /\ UNCHANGED <<pc, err>>
    /\ UNCHANGED <<files_data, i, phases, orphaned, valid_tasks, connected_tasks,
                   all_task_ids, cur, stats, run, first, doc, analysis, proc>>

\* lines 353-398: orphaned tasks and statistics, then the text is returned
RenderRest ==
    /\ pc = "done"
    /\ rp > Len(phases)
    /\ workflow_html' = workflow_html \o OrphansHtml(orphaned)
                          \o <<Piece("stats", None, stats.total_tasks)>>
    /\ pc' = "rendered"
    /\ UNCHANGED <<files_data, i, phases, orphaned, valid_tasks, connected_tasks,
                   all_task_ids, cur, stats, err, run, first, rp, doc, analysis,
                   proc>>

InitDisplay ==
    /\ FilesShown
    /\ doc = NoDoc
    /\ Entered

NextDisplay == Next \/ RenderPhase \/ RenderRest

SpecDisplay == InitDisplay /\ [][NextDisplay]_vars

(* --------------------- analysis of one document ------------------------ *)

\* A document on disk: unreadable, or readable with a text that does not start
\* with ---, has no closing ---, holds broken YAML, holds empty YAML, or holds
\* YAML that loads as a mapping, a sequence or a number.  In a mapping every
\* required field is absent, null or set.
DocKinds == {"no_marker", "bad_format", "yaml_error", "empty", "sequence", "number"}

Docs ==
    {[read_ok |-> r, kind |-> k, fields |-> NoYaml.fields] :
        r \in BOOLEAN, k \in DocKinds}
    \cup
    [read_ok : {TRUE}, kind : {"mapping"},
     fields : [RequiredSet -> {Absent, None, StrVal(<<"1">>)}]]

\* lines 496-515: the loaded value and the error list
ExtractYamlFrontmatter(d) ==
    CASE d.kind = "no_marker" ->
           [yaml_data |-> NoYaml, errors |-> <<"No YAML front matter found">>]
      [] d.kind = "bad_format" ->
           [yaml_data |-> NoYaml, errors |-> <<"Invalid YAML front matter format">>]
      [] d.kind = "yaml_error" ->
           [yaml_data |-> NoYaml, errors |-> <<"YAML parsing error">>]
      [] d.kind = "empty" ->
           [yaml_data |-> NoYaml, errors |-> <<>>]
      [] OTHER ->
           [yaml_data |-> [kind |-> d.kind, fields |-> d.fields], errors |-> <<>>]

\* line 532: not yaml_data
DataFalsy(yaml_data) ==
    \/ yaml_data.kind = "none"
    \/ yaml_data.kind = "mapping" /\ \A f \in RequiredSet : yaml_data.fields[f] = Absent

\* line 537: field not in yaml_data raises for a number
ValidateRaises(yaml_data) == ~DataFalsy(yaml_data) /\ yaml_data.kind = "number"

\* lines 530-540 with a null value taken as present
ValidateYamlFields_PresentOnly(yaml_data) ==
    IF DataFalsy(yaml_data)
    THEN REQUIRED_YAML_FIELDS
    ELSE SelectSeq(REQUIRED_YAML_FIELDS,
                   LAMBDA f : yaml_data.kind # "mapping" \/ yaml_data.fields[f] = Absent)

\* lines 530-540: validate_yaml_fields
ValidateYamlFields(yaml_data) ==
    IF DataFalsy(yaml_data)
    THEN REQUIRED_YAML_FIELDS
    ELSE SelectSeq(REQUIRED_YAML_FIELDS,
                   LAMBDA f : \/ yaml_data.kind # "mapping"
                              \/ yaml_data.fields[f] = Absent
                              \/ yaml_data.fields[f] = None)

\* lines 542-575: the FileAnalysis returned by analyze_file, or the exception
AnalyzeFileResult(d) ==
    IF ~d.read_ok
    THEN [built |-> TRUE, raised |-> "none", yaml_frontmatter |-> NoYaml,
          yaml_valid |-> FALSE, yaml_errors |-> <<"Error reading file">>,
          missing_required_fields |-> REQUIRED_YAML_FIELDS]
    ELSE LET ex == ExtractYamlFrontmatter(d)
             missing_fields == ValidateYamlFields(ex.yaml_data)
         IN  IF ValidateRaises(ex.yaml_data)
             THEN [NoAnalysis EXCEPT !.raised = "TypeError"]
             ELSE [built |-> TRUE, raised |-> "none", yaml_frontmatter |-> ex.yaml_data,
                   yaml_valid |-> Len(ex.errors) = 0 /\ Len(missing_fields) = 0,
                   yaml_errors |-> ex.errors,
                   missing_required_fields |-> missing_fields]

\* analyze_file on the document
AnalyzeFile ==
    /\ ~analysis.built
    /\ analysis.raised = "none"
    /\ doc.kind # "none"
    /\ analysis' = AnalyzeFileResult(doc)
    /\ UNCHANGED <<files_data, pc, i, phases, orphaned, valid_tasks, connected_tasks,
                   all_task_ids, cur, stats, err, run, first, workflow_html, rp, doc,
                   proc>>

InitAnalyze ==
    /\ files_data = <<>>
    /\ doc \in Docs
    /\ Entered

NextAnalyze == AnalyzeFile

SpecAnalyze == InitAnalyze /\ [][NextAnalyze]_vars

(* ----------------------------- run_analysis --------------------------- *)

\* Front matters of a folder: one phase or a list for a phase, with or without
\* a dangling next_task.
RunFM ==
    [isdict : {TRUE},
     task_id : {StrVal(sT1)},
     phase : {StrVal(<<"1">>), ListVal(1)},
     step : {StrVal(<<"1">>)},
     previous_task : {None},
     next_task : {None, StrVal(sT9)}]

\* analyses of valid files and of files without front matter
RunPayload ==
    [yaml_valid : {TRUE}, yaml_frontmatter : RunFM]
      \cup [yaml_valid : {FALSE}, yaml_frontmatter : {NoneFM}]

\* the values of --export that matter, "none" when the option is not given
ExportFormats == {"none", "json", "html", "all"}

\* lines 100-102: the report file in the working directory
TempFile == "architecture_analysis.html"

\* the entries of a list
Range(seq) == {seq[k] : k \in 1..Len(seq)}

\* a division by total_files at a line of the source
Division(line, total) == [line |-> line, den |-> total]

\* line 990 never returning
ReturnsEarly_Never(files) == FALSE

\* line 990: if not self.files_analysis: return
ReturnsEarly(files) == files = <<>>

\* lines 964-967: the formats export_results goes through
FormatsOf(fmt) ==
    IF fmt = "all" THEN <<"json", "csv", "html">> ELSE <<fmt>>

\* line 106 left out: the path is not registered
TrackPath_Forgot(registry, path) == registry

\* line 106: _temp_files.append(temp_file)
TrackPath(registry, path) == Append(registry, path)

\* lines 83-89: what _cleanup_temp_files leaves of the files on disk when
\* unlink fails on `failing`, which are tracked files on disk
DiskAfterCleanup(registry, files, failing) == files \ (Range(registry) \ failing)

\* line 1039: the bare except around the browser call catches SystemExit too
Swallows(position) == position = "open_browser"

\* the places of run_analysis a signal can arrive at
Running ==
    {"start", "summary", "export", "interactive", "tracked", "building",
     "open_browser", "wait", "sleeping"}

\* lines 987-991: analyze_folder, then the early return
AnalyzeFolder ==
    /\ rpc = "start"
    /\ files_data' = folder
    /\ rpc' = IF ReturnsEarly(folder) THEN "returned" ELSE "summary"
    /\ UNCHANGED <<pc, i, phases, orphaned, valid_tasks, connected_tasks, all_task_ids,
                   cur, stats, err, run, first, workflow_html, rp, doc, analysis,
                   export_html, export_format, folder, temp_files, disk, stuck,
                   handled, cleanups, divisions>>

\* lines 993-1006: the displays and the final summary; a ZeroDivisionError
\* leaves run_analysis and main exits
FinalSummary ==
    /\ rpc = "summary"
    /\ divisions' = divisions \cup {Division(1006, Len(files_data))}
    /\ rpc' = IF Len(files_data) = 0 THEN "exiting" ELSE "export"
    /\ UNCHANGED <<files_data, pc, i, phases, orphaned, valid_tasks, connected_tasks,
                   all_task_ids, cur, stats, err, run, first, workflow_html, rp, doc,
                   analysis, export_html, export_format, folder, temp_files, disk,
                   stuck, handled, cleanups>>

\* lines 1008-1013 and 960-985: export_results; the html export divides at
\* line 883, and an exception of one format is caught at line 982
ExportResults ==
    /\ rpc = "export"
    /\ divisions' =
         IF export_format # "none" /\ "html" \in Range(FormatsOf(export_format))
         THEN divisions \cup {Division(883, Len(files_data))}
         ELSE divisions
    /\ rpc' = "interactive"
    /\ UNCHANGED <<files_data, pc, i, phases, orphaned, valid_tasks, connected_tasks,
                   all_task_ids, cur, stats, err, run, first, workflow_html, rp, doc,
                   analysis, export_html, export_format, folder, temp_files, disk,
                   stuck, handled, cleanups>>

\* line 1016 and lines 100-107: without --export-html run_analysis returns;
\* with it export_html_interactive is entered and registers its path
TrackTempFile ==
    /\ rpc = "interactive"
    /\ IF export_html
       THEN /\ temp_files' = TrackPath(temp_files, TempFile)
            /\ rpc' = "tracked"
       ELSE /\ rpc' = "returned"
            /\ UNCHANGED temp_files
    /\ UNCHANGED <<files_data, pc, i, phases, orphaned, valid_tasks, connected_tasks,
                   all_task_ids, cur, stats, err, run, first, workflow_html, rp, doc,
                   analysis, export_html, export_format, folder, disk, stuck, handled,
                   cleanups, divisions>>

\* lines 110, 118-214 and 281-314: _generate_html_content up to the call of
\* _build_workflow_data; a ZeroDivisionError at line 177 is caught at line 1045
GenerateHtmlContent ==
    /\ rpc = "tracked"
    /\ divisions' = divisions \cup {Division(177, Len(files_data))}
    /\ IF Len(files_data) = 0
       THEN /\ rpc' = "returned"
            /\ UNCHANGED <<pc, i, phases, orphaned, valid_tasks, connected_tasks,
                           all_task_ids, cur, stats, err, workflow_html, rp>>
       ELSE /\ rpc' = "building"
            /\ pc' = "group"
            /\ i' = 1
            /\ phases' = FreshLocals.phases
            /\ orphaned' = FreshLocals.orphaned
            /\ valid_tasks' = FreshLocals.valid_tasks
            /\ connected_tasks' = FreshLocals.connected_tasks
            /\ all_task_ids' = {}
            /\ cur' = [p |-> 1, t |-> 1]
            /\ stats' = NoStats
            /\ err' = "none"
            /\ workflow_html' = <<>>
            /\ rp' = 1
    /\ UNCHANGED <<files_data, run, first, doc, analysis, export_html, export_format,
                   folder, temp_files, disk, stuck, handled, cleanups>>

\* lines 113-116: the text is there and the file is written; a failing write
\* is caught at line 1045 and may leave the file behind
WriteFile ==
    /\ rpc = "building"
    /\ pc = "rendered"
    /\ \E written, created \in BOOLEAN :
         /\ written => created
         /\ disk' = IF created THEN disk \cup {TempFile} ELSE disk
         /\ rpc' = IF written THEN "open_browser" ELSE "returned"
    /\ pc' = "idle"
    /\ UNCHANGED <<files_data, i, phases, orphaned, valid_tasks, connected_tasks,
                   all_task_ids, cur, stats, err, run, first, workflow_html, rp, doc,
                   analysis, export_html, export_format, folder, temp_files, stuck,
                   handled, cleanups, divisions>>

\* line 1045: an exception of the build or of the rendering is caught and
\* run_analysis returns
ExportFailed ==
    /\ rpc = "building"
    /\ pc = "raised"
    /\ pc' = "idle"
    /\ rpc' = "returned"
    /\ UNCHANGED <<files_data, i, phases, orphaned, valid_tasks, connected_tasks,
                   all_task_ids, cur, stats, err, run, first, workflow_html, rp, doc,
                   analysis, export_html, export_format, folder, temp_files, disk,
                   stuck, handled, cleanups, divisions>>

\* lines 1033-1040: subprocess.run returns, or fails and the failure is passed
\* over
OpenBrowser ==
    /\ rpc = "open_browser"
    /\ rpc' = "wait"
    /\ UNCHANGED <<files_data, pc, i, phases, orphaned, valid_tasks, connected_tasks,
                   all_task_ids, cur, stats, err, run, first, workflow_html, rp, doc,
                   analysis, export_html, export_format, folder, temp_files, disk,
                   stuck, handled, cleanups, divisions>>

\* lines 1043 and 482-489: wait_for_interrupt prints and sleeps for ever
WaitForInterrupt ==
    /\ rpc = "wait"
    /\ rpc' = "sleeping"
    /\ UNCHANGED <<files_data, pc, i, phases, orphaned, valid_tasks, connected_tasks,
                   all_task_ids, cur, stats, err, run, first, workflow_html, rp, doc,
                   analysis, export_html, export_format, folder, temp_files, disk,
                   stuck, handled, cleanups, divisions>>

\* lines 74-77 and 91-96: SIGINT or SIGTERM while run_analysis is under way;
\* the handler cleans up and raises SystemExit where the program stands
SignalHandler ==
    /\ export_html
    /\ rpc \in Running
    /\ \E failing \in SUBSET (Range(temp_files) \cap disk) :
         /\ disk' = DiskAfterCleanup(temp_files, disk, failing)
         /\ stuck' = stuck \cup failing
    /\ temp_files' = <<>>
    /\ cleanups' = cleanups + 1
    /\ handled' = handled + 1
    /\ rpc' = IF Swallows(rpc) THEN "wait" ELSE "exiting"
    /\ pc' = "idle"
    /\ UNCHANGED <<files_data, i, phases, orphaned, valid_tasks, connected_tasks,
                   all_task_ids, cur, stats, err, run, first, workflow_html, rp, doc,
                   analysis, export_html, export_format, folder, divisions>>

\* line 78 and lines 80-89: the interpreter ends and runs the registered
\* cleanup
AtExit ==
    /\ rpc \in {"returned", "exiting"}
    /\ rpc' = "terminated"
    /\ IF export_html
       THEN /\ \E failing \in SUBSET (Range(temp_files) \cap disk) :
                 /\ disk' = DiskAfterCleanup(temp_files, disk, failing)
                 /\ stuck' = stuck \cup failing
            /\ temp_files' = <<>>
            /\ cleanups' = cleanups + 1
       ELSE UNCHANGED <<disk, stuck, temp_files, cleanups>>
    /\ UNCHANGED <<files_data, pc, i, phases, orphaned, valid_tasks, connected_tasks,
                   all_task_ids, cur, stats, err, run, first, workflow_html, rp, doc,
                   analysis, export_html, export_format, folder, handled, divisions>>

InitRun ==
    /\ \E len \in 0..MaxFiles : \E f \in [1..len -> RunPayload] : folder = Named(f, len)
    /\ export_html \in BOOLEAN
    /\ export_format \in ExportFormats
    /\ rpc = "start"
    /\ files_data = <<>>
    /\ pc = "idle"
    /\ i = 1
    /\ phases = <<>>
    /\ orphaned = <<>>
    /\ valid_tasks = 0
    /\ connected_tasks = 0
    /\ all_task_ids = {}
    /\ cur = [p |-> 1, t |-> 1]
    /\ stats = NoStats
    /\ err = "none"
    /\ run = 1
    /\ first = NoFirst
    /\ workflow_html = <<>>
    /\ rp = 1
    /\ doc = NoDoc
    /\ analysis = NoAnalysis
    /\ temp_files = <<>>
    /\ disk = {}
    /\ stuck = {}
    /\ handled = 0
    /\ cleanups = 0
    /\ divisions = {}

NextRun ==
    \/ AnalyzeFolder
    \/ FinalSummary
    \/ ExportResults
    \/ TrackTempFile
    \/ GenerateHtmlContent
    \/ Next
    \/ RenderPhase
    \/ RenderRest
    \/ WriteFile
    \/ ExportFailed
    \/ OpenBrowser
    \/ WaitForInterrupt
    \/ SignalHandler
    \/ AtExit

SpecRun == InitRun /\ [][NextRun]_vars

(* ------------------------------ claims --------------------------------- *)

\* the task records held in the phase groups
GroupedTasks ==
    UNION {{phases[k].tasks[j] : j \in 1..Len(phases[k].tasks)} : k \in 1..Len(phases)}

\* the task records held in `orphaned`
OrphanedTasks == {orphaned[k] : k \in 1..Len(orphaned)}

\* a reference is empty: None, "", or another falsy value
RefEmpty(ref) ==
    \/ ref.t = "none"
    \/ ref.t = "str" /\ ref.s = <<>>
    \/ ref.t \in {"int", "list"} /\ ref.n = 0

\* a reference equals the task_id of some record in a phase group
RefKnown(ref) == \E task \in GroupedTasks : task.task_id = ref

\* a reference is a str whose first characters are those of `prefix`
RefHasPrefix(ref, prefix) ==
    /\ ref.t = "str"
    /\ Len(ref.s) >= Len(prefix)
    /\ \A k \in 1..Len(prefix) : ref.s[k] = prefix[k]

RefResolves(ref, prefix) == RefEmpty(ref) \/ RefKnown(ref) \/ RefHasPrefix(ref, prefix)

\* C1: after build a grouped record is in `orphaned` iff its previous_task does
\* not resolve (empty, a grouped task_id, or prefix "PHASE") or its next_task
\* does not resolve (empty, a grouped task_id, or prefix "P"); a record with
\* previous_task = None and next_task = None is never in `orphaned`.
C1_OrphanedIffUnresolved ==
    /\ pc = "done" =>
         \A task \in GroupedTasks :
           task \in OrphanedTasks <=>
             ~(RefResolves(task.previous_task, <<"P", "H", "A", "S", "E">>)
               /\ RefResolves(task.next_task, <<"P">>))
    /\ \A task \in OrphanedTasks : ~(task.previous_task = None /\ task.next_task = None)

\* C1 witness: a finished build with an orphan, a record resolved through a
\* known task_id, and a record with both references None.
C1_Witness ==
    /\ pc = "done"
    /\ OrphanedTasks # {}
    /\ \E task \in GroupedTasks \ OrphanedTasks :
         /\ ~RefEmpty(task.previous_task)
         /\ RefKnown(task.previous_task)
         /\ ~RefHasPrefix(task.previous_task, <<"P">>)

\* C3: a record whose next_task starts with the bare prefix "P" and whose
\* previous_task is empty is not orphaned, known task_id or not; a record
\* whose previous_task is a non-empty str that is no grouped task_id and does
\* not start with "PHASE" is orphaned.
C3_PrefixAsymmetry ==
    pc = "done" =>
      \A task \in GroupedTasks :
        /\ (RefHasPrefix(task.next_task, <<"P">>) /\ RefEmpty(task.previous_task))
             => task \notin OrphanedTasks
        /\ (/\ task.previous_task.t = "str"
            /\ ~RefEmpty(task.previous_task)
            /\ ~RefKnown(task.previous_task)
            /\ ~RefHasPrefix(task.previous_task, <<"P", "H", "A", "S", "E">>))
             => task \in OrphanedTasks

\* C3 witness: "P5" is no task_id; the record with previous_task = "P5" is
\* orphaned and the record with only next_task = "P5" is not.
C3_Witness ==
    /\ pc = "done"
    /\ ~RefKnown(StrVal(<<"P", "5">>))
    /\ \E task \in OrphanedTasks :
         task.previous_task = StrVal(<<"P", "5">>) /\ task.next_task = None
    /\ \E task \in GroupedTasks \ OrphanedTasks :
         task.previous_task = None /\ task.next_task = StrVal(<<"P", "5">>)
\* the input records that are not skipped, in input order, as task records
Retained(files) ==
    LET kept == SelectSeq(files, LAMBDA fd : ~Skipped(fd))
    IN [k \in 1..Len(kept) |-> TaskInfo(kept[k])]

\* the records the grouping loop has gone through
Processed == SubSeq(files_data, 1, i - 1)

\* C2: after build the sizes of the phase groups add up to the number of input
\* records that did not fail parsing (those that carry a front matter),
\* records with yaml_valid = false included.
C2_AllParsedRecordsGrouped ==
    pc = "done" =>
      SumLens(phases) =
        Cardinality({k \in 1..Len(files_data) : FMTruthy(files_data[k].yaml_frontmatter)})

\* C4: `phases` is the stable group-by of the retained records on phase: each
\* group holds, in input order, exactly the retained records whose phase is
\* its key; keys are distinct and ordered by first appearance; every retained
\* record sits at exactly one place.
C4_StableGroupBy ==
    LET ret == Retained(Processed)
        First(key) == CHOOSE m \in 1..Len(ret) :
                        /\ ret[m].phase = key
                        /\ \A m2 \in 1..(m - 1) : ret[m2].phase # key
    IN /\ \A k \in 1..Len(phases) :
            /\ phases[k].tasks # <<>>
            /\ phases[k].tasks = SelectSeq(ret, LAMBDA t : t.phase = phases[k].key)
       /\ \A k1, k2 \in 1..Len(phases) :
            k1 < k2 => /\ phases[k1].key # phases[k2].key
                       /\ First(phases[k1].key) < First(phases[k2].key)
       /\ \A m \in 1..Len(ret) :
            Cardinality({pos \in (1..Len(phases)) \X (1..Len(ret)) :
                           /\ pos[2] <= Len(phases[pos[1]].tasks)
                           /\ phases[pos[1]].tasks[pos[2]] = ret[m]}) = 1

\* C4 witness: two phases met in the order "2", "1" stay in that order.
C4_Witness ==
    /\ pc = "done"
    /\ Len(phases) = 2
    /\ phases[1].key = StrVal(<<"2">>)
    /\ phases[2].key = StrVal(<<"1">>)

\* C5: every record in `orphaned` is still in its phase group, and the orphan
\* pass removes nothing from `phases`: the groups still hold every retained
\* record.
C5_OrphanedIsView ==
    /\ OrphanedTasks \subseteq GroupedTasks
    /\ pc \in {"orphans", "done"} =>
         LET ret == Retained(files_data)
         IN /\ SumLens(phases) = Len(ret)
            /\ \A m \in 1..Len(ret) : ret[m] \in GroupedTasks

\* C5 witness: a finished build whose orphan is found in the group keyed by
\* its phase.
C5_Witness ==
    /\ pc = "done"
    /\ \E task \in OrphanedTasks : \E k \in 1..Len(phases) :
         /\ phases[k].key = task.phase
         /\ \E j \in 1..Len(phases[k].tasks) : phases[k].tasks[j] = task

\* C6: connected_tasks is the number of grouped records whose previous_task or
\* next_task is non-empty, resolved or not.
C6_ConnectedCountsDeclared ==
    pc = "done" =>
      stats.connected_tasks =
        Cardinality({task \in GroupedTasks :
                       ~RefEmpty(task.previous_task) \/ ~RefEmpty(task.next_task)})

\* C6 witness: an orphan with a dangling reference is the one record counted as
\* connected, beside a record with both references empty.
C6_Witness ==
    /\ pc = "done"
    /\ stats.connected_tasks = 1
    /\ stats.total_tasks = 2
    /\ \E task \in OrphanedTasks :
         ~RefEmpty(task.previous_task) /\ ~RefKnown(task.previous_task)
    /\ \E task \in GroupedTasks : RefEmpty(task.previous_task) /\ RefEmpty(task.next_task)

\* C7: valid_tasks is the number of grouped records with valid = true, and an
\* input with a parsed record that failed field validation gives
\* valid_tasks < total_tasks.
C7_InvalidCountedInTotal ==
    pc = "done" =>
      /\ stats.valid_tasks = Cardinality({task \in GroupedTasks : task.valid})
      /\ (\E k \in 1..Len(files_data) :
            ~files_data[k].yaml_valid /\ FMTruthy(files_data[k].yaml_frontmatter))
           => stats.valid_tasks < stats.total_tasks

\* C8: completion_rate = valid_tasks / total_tasks * 100 when total_tasks > 0,
\* 0 when total_tasks = 0, and no division by zero is ever raised.
C8_CompletionRateGuarded ==
    /\ err # "ZeroDivisionError"
    /\ pc = "done" =>
         /\ stats.completion_rate.den > 0
         /\ stats.total_tasks > 0 =>
              stats.completion_rate.num * stats.total_tasks
                = stats.valid_tasks * 100 * stats.completion_rate.den
         /\ stats.total_tasks = 0 => stats.completion_rate.num = 0

\* C8 witness: a build over a non-empty input in which no record is retained
\* finishes with total_tasks = 0 and completion_rate = 0.
C8_Witness ==
    /\ pc = "done"
    /\ Len(files_data) > 0
    /\ stats.total_tasks = 0
    /\ stats.completion_rate.num = 0

\* C9: no input makes the build end in an exception.
C9_NeverRaises == pc # "raised" /\ err = "none"

\* C10: once the grouping loop has run through without aborting, every retained
\* record whose phase is the empty string or absent sits in the group keyed
\* "Unknown".
C10_EmptyPhaseUnderUnknown ==
    \A k \in 1..Len(files_data) :
      LET fd == files_data[k] IN
      (/\ ~Skipped(fd)
       /\ fd.yaml_frontmatter.phase \in {Absent, StrVal(<<>>)}
       /\ pc \in {"orphans", "done"})
        => \E p \in 1..Len(phases) :
             /\ phases[p].key = StrVal(<<"U", "n", "k", "n", "o", "w", "n">>)
             /\ \E j \in 1..Len(phases[p].tasks) : phases[p].tasks[j].filename = fd.filename
\* C11: resolution looks one hop only: a grouped record each of whose
\* references is empty or names a grouped task_id is not orphaned, whether or
\* not the records it names are orphaned themselves.
C11_OneHopOnly ==
    pc = "done" =>
      \A task \in GroupedTasks :
        (/\ RefEmpty(task.previous_task) \/ RefKnown(task.previous_task)
         /\ RefEmpty(task.next_task) \/ RefKnown(task.next_task))
          => task \notin OrphanedTasks

\* C11 witness: a record that is not orphaned names, as previous_task, a
\* task_id all of whose holders are other records, every one of them orphaned.
C11_Witness ==
    /\ pc = "done"
    /\ \E task \in GroupedTasks \ OrphanedTasks :
         /\ ~RefEmpty(task.previous_task)
         /\ ~RefHasPrefix(task.previous_task, <<"P">>)
         /\ task.task_id # task.previous_task
         /\ \E named \in GroupedTasks : named.task_id = task.previous_task
         /\ \A named \in GroupedTasks :
              named.task_id = task.previous_task => named \in OrphanedTasks

\* C12: the empty input never raises and ends with no phase, no orphan and
\* every statistics field 0.
C12_EmptyInputEmptyResult ==
    files_data = <<>> =>
      /\ pc # "raised"
      /\ pc = "done" =>
           /\ phases = <<>>
           /\ orphaned = <<>>
           /\ stats.total_tasks = 0
           /\ stats.connected_tasks = 0
           /\ stats.orphaned_tasks = 0
           /\ stats.phases_count = 0
           /\ stats.valid_tasks = 0
           /\ stats.completion_rate.num = 0

\* C12 witness: the build of the empty list has finished.
C12_Witness == pc = "done" /\ files_data = <<>> /\ stats.phases_count = 0

\* C15: a grouped record whose previous_task or next_task is its own task_id is
\* not orphaned on account of that reference: with the other reference
\* resolved it is not in `orphaned`.
C15_SelfReferenceResolves ==
    pc = "done" =>
      \A task \in GroupedTasks :
        /\ (task.previous_task = task.task_id /\ RefResolves(task.next_task, <<"P">>))
             => task \notin OrphanedTasks
        /\ (/\ task.next_task = task.task_id
            /\ RefResolves(task.previous_task, <<"P", "H", "A", "S", "E">>))
             => task \notin OrphanedTasks

\* C15 witness: the only holder of a task_id names itself as previous_task,
\* carries no accepted prefix, and is not orphaned.
C15_Witness ==
    /\ pc = "done"
    /\ \E task \in GroupedTasks \ OrphanedTasks :
         /\ task.previous_task = task.task_id
         /\ ~RefEmpty(task.previous_task)
         /\ ~RefHasPrefix(task.previous_task, <<"P">>)
         /\ \A other \in GroupedTasks \ {task} : other.task_id # task.task_id

\* the input holds a value the builder cannot handle: a list as phase or
\* task_id, or a non-empty reference that is no str
IllTyped ==
    \E k \in 1..Len(files_data) :
      LET task == TaskInfo(files_data[k]) IN
      /\ ~Skipped(files_data[k])
      /\ \/ task.phase.t = "list"
         \/ task.task_id.t = "list"
         \/ ~RefEmpty(task.previous_task) /\ task.previous_task.t # "str"
         \/ ~RefEmpty(task.next_task) /\ task.next_task.t # "str"

\* C16: records sharing a task_id never abort the build (it raises only on
\* ill-typed values); all of them are kept in their groups and counted in
\* total_tasks, and a reference to the shared task_id resolves.
C16_DuplicateIdsTolerated ==
    /\ pc = "raised" => IllTyped
    /\ pc = "done" =>
         LET ret == Retained(files_data) IN
         /\ \A m \in 1..Len(ret) : ret[m] \in GroupedTasks
         /\ stats.total_tasks = Len(ret)
         /\ \A a, b \in GroupedTasks :
              (a # b /\ a.task_id = b.task_id) =>
                \A task \in GroupedTasks :
                  (/\ task.previous_task = a.task_id
                   /\ RefResolves(task.next_task, <<"P">>))
                    => task \notin OrphanedTasks

\* C16 witness: two grouped records share a task_id, a record naming it as
\* previous_task is not orphaned, and total_tasks counts both.
C16_Witness ==
    /\ pc = "done"
    /\ stats.total_tasks = 2
    /\ \E a, b \in GroupedTasks :
         /\ a # b
         /\ a.task_id = b.task_id
         /\ a.previous_task = b.task_id
         /\ ~RefHasPrefix(a.previous_task, <<"P">>)
         /\ a \notin OrphanedTasks

\* C17: total_tasks is the number of places in the phase groups and
\* phases_count the number of phase keys.
C17_TotalsMatchGroups ==
    pc = "done" =>
      /\ stats.total_tasks =
           Cardinality({pos \in (1..Len(phases)) \X (1..Len(files_data)) :
                          pos[2] <= Len(phases[pos[1]].tasks)})
      /\ stats.phases_count = Cardinality({phases[k].key : k \in 1..Len(phases)})

\* C17 witness: one phase holding two records.
C17_Witness == pc = "done" /\ stats.total_tasks = 2 /\ stats.phases_count = 1

\* C18: no record is held twice in `orphaned`, and orphaned_tasks is the number
\* of orphaned records.
C18_OrphansHeldOnce ==
    /\ \A a, b \in 1..Len(orphaned) : a # b => orphaned[a] # orphaned[b]
    /\ pc = "done" => stats.orphaned_tasks = Cardinality(OrphanedTasks)

\* C18 witness: a record both of whose references fail is the one orphan.
C18_Witness ==
    /\ pc = "done"
    /\ stats.orphaned_tasks = 1
    /\ \E task \in OrphanedTasks :
         /\ ~RefResolves(task.previous_task, <<"P", "H", "A", "S", "E">>)
         /\ ~RefResolves(task.next_task, <<"P">>)
\* the records of each phase group, order left aside
GroupSets(ph) ==
    {[key |-> ph[k].key, tasks |-> {ph[k].tasks[j] : j \in 1..Len(ph[k].tasks)}] :
       k \in 1..Len(ph)}

\* C13: a second call on the same input sequence ends as the first one did,
\* with the same phases, orphaned and statistics: the first call leaves
\* nothing behind that the second reads.
C13_SecondCallSameResult ==
    (run = 2 /\ files_data = first.files /\ pc \in {"done", "raised"}) =>
      /\ pc = first.pc
      /\ err = first.err
      /\ phases = first.phases
      /\ orphaned = first.orphaned
      /\ stats = first.stats

\* C13 witness: the second call on the same two records has returned, with a
\* group and an orphan.
C13_Witness ==
    /\ run = 2
    /\ pc = "done"
    /\ Len(files_data) = 2
    /\ files_data = first.files
    /\ orphaned # <<>>
    /\ stats.total_tasks = 2

\* C14: a call on the same records in another order returns whenever the first
\* call did, with the same orphaned records, the same statistics and the same
\* records under each phase key.
C14_OrderIndependent ==
    (run = 2 /\ first.pc = "done") =>
      /\ pc # "raised"
      /\ pc = "done" =>
           /\ OrphanedTasks = {first.orphaned[k] : k \in 1..Len(first.orphaned)}
           /\ stats = first.stats
           /\ GroupSets(phases) = GroupSets(first.phases)

\* C14 witness: the records were handed over in the other order, the phases
\* come out in the other order, and the same record is orphaned.
C14_Witness ==
    /\ run = 2
    /\ pc = "done"
    /\ first.pc = "done"
    /\ files_data # first.files
    /\ Len(phases) = 2
    /\ phases[1].key = first.phases[2].key
    /\ OrphanedTasks # {}
    /\ OrphanedTasks # GroupedTasks
\* C19: a FileAnalysis has yaml_valid true exactly when its error list and its
\* list of missing required fields are both empty, which is exactly when the
\* document was read, loaded as a mapping and has every required field set to
\* something other than null; a document that could not be read or parsed, or
\* whose header is empty, has all required fields listed as missing and is not
\* valid.
C19_ValidIffParsedAndComplete ==
    analysis.built =>
      /\ analysis.yaml_valid <=>
           (analysis.yaml_errors = <<>> /\ analysis.missing_required_fields = <<>>)
      /\ analysis.yaml_valid <=>
           /\ doc.read_ok
           /\ doc.kind = "mapping"
           /\ \A f \in RequiredSet : doc.fields[f] \notin {Absent, None}
      /\ (~doc.read_ok \/ doc.kind \in {"no_marker", "bad_format", "yaml_error", "empty"}) =>
           /\ analysis.missing_required_fields = REQUIRED_YAML_FIELDS
           /\ ~analysis.yaml_valid

\* C19 witness: a mapping with one null field and nothing else wrong was
\* analysed: no parse error, that one field missing, not valid.
C19_Witness ==
    /\ analysis.built
    /\ doc.kind = "mapping"
    /\ analysis.yaml_errors = <<>>
    /\ analysis.missing_required_fields = <<"next_task">>
    /\ doc.fields["next_task"] = None
    /\ ~analysis.yaml_valid
\* positions in workflow_html of the pieces with one of the tags
Tagged(tags) == {k \in 1..Len(workflow_html) : workflow_html[k].tag \in tags}

\* first position after a of a piece with the tag
NextTagged(a, tag) ==
    CHOOSE b \in Tagged({tag}) : b > a /\ \A c \in Tagged({tag}) : c > a => b <= c

\* position of the heading of the p-th rendered phase
PhaseAt(p) ==
    CHOOSE a \in Tagged({"phase"}) : Cardinality({b \in Tagged({"phase"}) : b <= a}) = p

\* the tasks of the p-th phase with the given step, in the order of the phase
WithStep(p, step) == SelectSeq(phases[p].tasks, LAMBDA t : t.step = step)

\* C20: in the rendering of each phase the step headings come in increasing
\* key order; under the heading of a step stand exactly the records of the
\* phase with that step, in input order, with one arrow between each
\* consecutive pair and none elsewhere; the step is a flow when it has more
\* than one record and a standalone node when it has one; every record of the
\* phase has exactly one node in the phase.
C20_StepsSortedFlowsJoined ==
    \A p \in 1..(rp - 1) :
      LET a == PhaseAt(p)
          e == NextTagged(a, "end_phase")
          heads == {k \in Tagged({"flow", "single"}) : a < k /\ k < e}
      IN  /\ workflow_html[a].key = phases[p].key
          /\ \A k1, k2 \in heads :
               k1 < k2 => KeyLess(workflow_html[k1].key, workflow_html[k2].key)
          /\ \A k \in heads :
               LET recs == WithStep(p, workflow_html[k].key)
                   n == Len(recs)
                   inside == (k + 1)..(NextTagged(k, "end_step") - 1)
               IN  /\ n >= 1
                   /\ NextTagged(k, "end_step") = k + 2 * n
                   /\ \A m \in 1..n :
                        /\ workflow_html[k + 2 * m - 1].tag = "node"
                        /\ workflow_html[k + 2 * m - 1].task = recs[m].filename
                   /\ \A m \in 1..(n - 1) : workflow_html[k + 2 * m].tag = "arrow"
                   /\ Cardinality(inside \cap Tagged({"arrow"})) = n - 1
                   /\ workflow_html[k].tag = "flow" <=> n > 1
          /\ \A j \in 1..Len(phases[p].tasks) :
               Cardinality({k \in Tagged({"node"}) :
                              /\ a < k
                              /\ k < e
                              /\ workflow_html[k].task = phases[p].tasks[j].filename}) = 1

\* C20 witness: a phase of three records was rendered whose first record has
\* step "2" and whose other two share step "10": the flow of "10", with its
\* one arrow, stands before the standalone node of "2".
C20_Witness ==
    /\ pc = "rendered"
    /\ Len(phases) = 1
    /\ Len(phases[1].tasks) = 3
    /\ phases[1].tasks[1].step = StrVal(<<"2">>)
    /\ workflow_html[2] = Piece("flow", StrVal(<<"1", "0">>), 0)
    /\ workflow_html[4].tag = "arrow"
    /\ workflow_html[7] = Piece("single", StrVal(<<"2">>), 0)
\* C21: a finished build reports orphaned_tasks <= connected_tasks <=
\* total_tasks, and every orphaned record has a non-empty previous_task or
\* next_task.
C21_OrphanedWithinConnected ==
    pc = "done" =>
      /\ stats.orphaned_tasks <= stats.connected_tasks
      /\ stats.connected_tasks <= stats.total_tasks
      /\ \A task \in OrphanedTasks :
           ~RefEmpty(task.previous_task) \/ ~RefEmpty(task.next_task)

\* C21 witness: of two grouped records one has no reference and the other is
\* orphaned through its next_task alone; both counts are 1.
C21_Witness ==
    /\ pc = "done"
    /\ stats.total_tasks = 2
    /\ stats.connected_tasks = 1
    /\ stats.orphaned_tasks = 1
    /\ \E task \in OrphanedTasks :
         RefEmpty(task.previous_task) /\ ~RefEmpty(task.next_task)

\* C22: every record in a phase group has valid = true and comes from an input
\* record with yaml_valid true and a non-empty front matter; a finished build
\* has valid_tasks = total_tasks and completion_rate 0 (no task) or 100.
C22_OnlyValidGrouped ==
    /\ \A task \in GroupedTasks :
         /\ task.valid
         /\ files_data[task.filename].yaml_valid
         /\ FMTruthy(files_data[task.filename].yaml_frontmatter)
    /\ pc = "done" =>
         /\ stats.valid_tasks = stats.total_tasks
         /\ stats.completion_rate.den = 1
         /\ stats.completion_rate.num = IF stats.total_tasks = 0 THEN 0 ELSE 100

\* C22 witness: a record that parsed but failed field validation was left out,
\* the other record was grouped, and the rate is 100.
C22_Witness ==
    /\ pc = "done"
    /\ \E k \in 1..Len(files_data) :
         ~files_data[k].yaml_valid /\ FMTruthy(files_data[k].yaml_frontmatter)
    /\ stats.total_tasks = 1
    /\ stats.valid_tasks = 1
    /\ stats.completion_rate.num = 100
\* C23: once the signal handler has run, run_analysis takes no further step:
\* the process is on its way out or gone.
C23_HandlerEndsRun == handled > 0 => rpc \in {"exiting", "terminated"}
\* the files on disk are tracked, or an unlink failed on them in a cleanup
DiskTracked == disk \subseteq (Range(temp_files) \cup stuck)

\* a step that runs _cleanup_temp_files empties the registry and leaves of the
\* tracked files only those the unlink failed on; with an empty registry it
\* leaves the disk as it is
CleanupStep ==
    cleanups' # cleanups =>
      /\ temp_files' = <<>>
      /\ \A path \in Range(temp_files) : path \in disk' => path \in stuck'
      /\ temp_files = <<>> => (disk' = disk /\ stuck' = stuck)

\* C24: a report file on disk is in the registry unless a cleanup has gone
\* over it and failed to unlink it; every run of the cleanup leaves the
\* registry empty and none of the tracked files on disk but those whose unlink
\* failed; a cleanup that finds the registry empty changes nothing.
C24_TrackedUntilCleanup == []DiskTracked /\ [][CleanupStep]_vars

\* C24 witness: the report was written, a signal during the browser call
\* cleaned it up, a second signal and the exit ran the cleanup twice more, and
\* neither file nor registry entry is left.
C24_Witness ==
    /\ rpc = "terminated"
    /\ handled = 2
    /\ cleanups = 3
    /\ temp_files = <<>>
    /\ disk = {}
    /\ stuck = {}

\* C25: every division by total_files that was evaluated had total_files >= 1,
\* and with no analysed file run_analysis is over after analyze_folder with no
\* division evaluated and no report file registered or written.
C25_NoDivisionByZeroFiles ==
    /\ \A d \in divisions : d.den >= 1
    /\ (folder = <<>> /\ rpc # "start") =>
         /\ rpc \in {"returned", "exiting", "terminated"}
         /\ divisions = {}
         /\ temp_files = <<>>
         /\ disk = {}

\* C25 witness: with two analysed files the final summary, the html export and
\* the interactive report have each divided by 2.
C25_Witness ==
    /\ Len(files_data) = 2
    /\ divisions = {Division(1006, 2), Division(883, 2), Division(177, 2)}

====
